---- MODULE Spec2Model ----
(***************************************************************************)
(* Fractal-Renderer: the expression decomposer (recursiveDecompose), the   *)
(* fragment program assembler (getFragment) and the iteration loop of the  *)
(* program it generates.                                                   *)
(*                                                                         *)
(* Text is a sequence of strings.  Whatever is computed from an input (a   *)
(* lexeme, an operator tag, a formatted number, the decomposed expression) *)
(* is held one character per element; a fixed stretch of the template may  *)
(* be held as one element.  Equal sequences are byte-identical texts.      *)
(***************************************************************************)
EXTENDS Integers, Sequences, FiniteSets, TLC

VARIABLES
    node,       \* the parse tree handed to recursiveDecompose
    out,        \* what that call did: pending, returned a text, or threw
    viewport,   \* the global viewport object (its settings record)
    call,       \* the latest getFragment call: arguments and outcome
    gpu,        \* one fragment's execution of a generated program
    render      \* the state of render.ts beside viewport, and of the GL context

vars == <<node, out, viewport, call, gpu, render>>

(***************************************************************************)
(* Bounds of the model.                                                    *)
(***************************************************************************)
MaxNodes == 5
MaxLexLen == 3
MaxIter == 3

(***************************************************************************)
(* Text fragments of src/shaders.ts, character by character.               *)
(***************************************************************************)
TxtVec2Open == <<"v","e","c","2","(">>
TxtZeroImag == <<",","0",".","0",")">>
TxtI == <<"v","e","c","2","(","0",".","0",",","1",".","0",")">>
TxtE == <<"v","e","c","2","(","e",",","0",".","0",")">>
TxtPi == <<"v","e","c","2","(","p","i",",","0",".","0",")">>
TxtDotZero == <<".","0">>
TxtCm == <<"c","m","(">>
TxtCd == <<"c","d","(">>
TxtCpow == <<"c","p","o","w","(">>
TxtComma == <<",">>
TxtClose == <<")">>
TxtOpen == <<"(">>
TxtPrefix == <<"c">>
TxtSeedC == <<"c">>
TxtSeedZero == <<"v","e","c","2","(","0",".","0",",","0",".","0",")">>
TxtFloat == <<"f","l","o","a","t">>
TxtVec2 == <<"v","e","c","2">>
TxtIterFraction == <<"i","t","e","r","/","f","l","o","a","t","I","t","e","r">>
TxtZ == <<"z">>

\* The lexemes of the three reserved symbols.
LexI == <<"i">>
LexE == <<"e">>
LexPi == <<"\\","p","i">>

Digits == {"0","1","2","3","4","5","6","7","8","9"}

\* String.prototype.includes(".")
includesDot(value) == \E k \in 1..Len(value) : value[k] = "."

(***************************************************************************)
(* Parse nodes.  The four classes the decomposer tests with instanceof,    *)
(* and a node of none of them.                                             *)
(***************************************************************************)
NumberNode(value) == [type |-> "NumberNode", value |-> value]
VariableNode(value) == [type |-> "VariableNode", value |-> value]
OneOperatorNode(operator, value) ==
    [type |-> "OneOperatorNode", operator |-> operator, value |-> value]
TwoOperatorNode(operator, left, right) ==
    [type |-> "TwoOperatorNode", operator |-> operator, left |-> left, right |-> right]
OtherNode == [type |-> "OtherNode"]

(***************************************************************************)
(* The outcome of a call: a returned text, or an exception.                *)
(***************************************************************************)
Returned(text) == [thrown |-> FALSE, text |-> text]
Thrown == [thrown |-> TRUE, text |-> <<>>]

(***************************************************************************)
(* recursiveDecompose, src/shaders.ts 40-77.                               *)
(***************************************************************************)
decomposeNumber_AlwaysAppends(value) ==
    IF value = LexI THEN TxtI
    ELSE IF value = LexE THEN TxtE
    ELSE IF value = LexPi THEN TxtPi
    ELSE TxtVec2Open \o value \o TxtDotZero \o TxtZeroImag

decomposeNumber(value) ==
    IF value = LexI THEN TxtI
    ELSE IF value = LexE THEN TxtE
    ELSE IF value = LexPi THEN TxtPi
    ELSE IF includesDot(value) THEN TxtVec2Open \o value \o TxtZeroImag
    ELSE TxtVec2Open \o value \o TxtDotZero \o TxtZeroImag

\* The operator tags the TwoOperatorNode branch returns for; any other tag
\* leaves the branch without returning.
isLoweredOperator(operator) ==
    operator \in {<<"+">>, <<"-">>, <<"*">>, <<"/">>, <<"^">>}

\* left and right are the outcomes of decomposing the two children, the left
\* one first; an exception in either is the outcome of the whole.
decomposeTwoOperator_SwapsDivision(operator, left, right) ==
    IF left.thrown \/ right.thrown THEN Thrown
    ELSE IF operator = <<"+">> \/ operator = <<"-">>
        THEN Returned(left.text \o operator \o right.text)
    ELSE IF operator = <<"*">>
        THEN Returned(TxtCm \o left.text \o TxtComma \o right.text \o TxtClose)
    ELSE IF operator = <<"/">>
        THEN Returned(TxtCd \o right.text \o TxtComma \o left.text \o TxtClose)
    ELSE Returned(TxtCpow \o left.text \o TxtComma \o right.text \o TxtClose)

decomposeTwoOperator_NoPower(operator, left, right) ==
    IF left.thrown \/ right.thrown THEN Thrown
    ELSE IF operator = <<"+">> \/ operator = <<"-">>
        THEN Returned(left.text \o operator \o right.text)
    ELSE IF operator = <<"*">>
        THEN Returned(TxtCm \o left.text \o TxtComma \o right.text \o TxtClose)
    ELSE IF operator = <<"/">>
        THEN Returned(TxtCd \o left.text \o TxtComma \o right.text \o TxtClose)
    ELSE Thrown

decomposeTwoOperator(operator, left, right) ==
    IF left.thrown \/ right.thrown THEN Thrown
    ELSE IF operator = <<"+">> \/ operator = <<"-">>
        THEN Returned(left.text \o operator \o right.text)
    ELSE IF operator = <<"*">>
        THEN Returned(TxtCm \o left.text \o TxtComma \o right.text \o TxtClose)
    ELSE IF operator = <<"/">>
        THEN Returned(TxtCd \o left.text \o TxtComma \o right.text \o TxtClose)
    ELSE Returned(TxtCpow \o left.text \o TxtComma \o right.text \o TxtClose)

decomposeOneOperator(operator, value) ==
    IF value.thrown THEN Thrown
    ELSE Returned(TxtPrefix \o operator \o TxtOpen \o value.text \o TxtClose)

RECURSIVE recursiveDecompose(_)
recursiveDecompose(n) ==
    IF n.type = "NumberNode" THEN Returned(decomposeNumber(n.value))
    ELSE IF n.type = "TwoOperatorNode" /\ isLoweredOperator(n.operator)
        THEN decomposeTwoOperator(n.operator,
                                  recursiveDecompose(n.left),
                                  recursiveDecompose(n.right))
    ELSE IF n.type = "OneOperatorNode"
        THEN decomposeOneOperator(n.operator, recursiveDecompose(n.value))
    ELSE IF n.type = "VariableNode" THEN Returned(n.value)
    ELSE Thrown

(***************************************************************************)
(* Numbers as text.  Reals are held in thousandths: 996 is 0.996.          *)
(***************************************************************************)
DigitSeq == <<"0","1","2","3","4","5","6","7","8","9">>
DigitChar(d) == DigitSeq[d + 1]
DigitVal(ch) == CHOOSE d \in 0..9 : DigitSeq[d + 1] = ch

\* Number.prototype.toString of a non-negative integer.
RECURSIVE NumberToString(_)
NumberToString(n) ==
    IF n < 10 THEN <<DigitChar(n)>>
    ELSE NumberToString(n \div 10) \o <<DigitChar(n % 10)>>

\* Number.prototype.toFixed(2) of x thousandths: the nearest number of
\* hundredths (the larger of two equally near), written with two decimals.
toFixed2(x) ==
    LET a == IF x < 0 THEN -x ELSE x
        h == (a + 5) \div 10
    IN  (IF x < 0 THEN <<"-">> ELSE <<>>)
        \o NumberToString(h \div 100)
        \o <<".">>
        \o <<DigitChar((h \div 10) % 10), DigitChar(h % 10)>>

(***************************************************************************)
(* COLORING_MODES, src/shaders.ts 1-38: the body of color() per key.  Each *)
(* body is a fixed text, held as one element (line breaks and indentation  *)
(* left out).                                                              *)
(***************************************************************************)
COLORING_MODES ==
    [ hue          |-> <<"if (x >= 1.0 || x <= 0.0) { return vec3(0.0); } float angle = mod(360.0 * x + shift, 360.0); vec3 hsl = vec3(angle, 1.0, 0.5); return hsltorgb(hsl);">>,
      grayscaleInv |-> <<"x = clamp(x,0.0,1.0); return vec3(x);">>,
      grayscale    |-> <<"x = clamp(x,0.0,1.0); return vec3(1.0-x);">>,
      bw           |-> <<"if (x >= 1.0) { return vec3(0.0); } return vec3(1.0);">>,
      bwInv        |-> <<"if (x >= 1.0) { return vec3(1.0); } return vec3(0.0);">>,
      domain       |-> <<"float angle; if (x == vec2(0.0)) { angle = shift; } else { angle = 180.0/pi * atan(x.y,x.x) + shift; } angle = mod(angle,360.0); if (angle >= 360.0 || angle <= 0.0) { angle = shift; } vec3 hsl = vec3(angle, 1.0, 0.5); return hsltorgb(hsl);">> ]

\* What a template literal prints for a property the table does not have.
TxtUndefined == <<"u","n","d","e","f","i","n","e","d">>

\* ${COLORING_MODES[settings.coloring]}
coloringBody(coloring) ==
    IF coloring \in DOMAIN COLORING_MODES THEN COLORING_MODES[coloring]
    ELSE TxtUndefined

(***************************************************************************)
(* getFragment, src/shaders.ts 79-361.  The program text is the fixed      *)
(* template with ten interpolated parts; the text is held as the record of *)
(* those parts, in the order they appear.                                  *)
(***************************************************************************)
TxtBiasOpen == <<"x = pow(x,pow(1.1,">>
TxtBiasClose == <<"));">>
TxtEscapeOpen == <<"if (z.x*z.x + z.y*z.y > ">>
TxtEscapeClose == <<") { iter = float(i); break; }">>
TxtSmoothGuard == <<"if (iter != floatIter)">>
TxtSmoothBody == <<"{ float log_zn = log(z.x*z.x+z.y*z.y)/2.0; float nu = log(log_zn / log(2.0)) / log(2.0); iter = iter + 1.0 - nu; }">>

\* color(${settings.coloring !== "domain" ? "float" : "vec2"} x)
colorParamText(settings) ==
    IF settings.coloring # "domain" THEN TxtFloat ELSE TxtVec2

\* ${settings.coloring === "domain" ? "" : `x = pow(x,pow(1.1,${settings.bias.toFixed(2)}));`}
biasText(settings) ==
    IF settings.coloring = "domain" THEN <<>>
    ELSE TxtBiasOpen \o toFixed2(settings.bias) \o TxtBiasClose

\* vec2 z = ${viewport.settings.julia ? "c" : "vec2(0.0,0.0)"};
\* The flag is read from the global viewport, not from the settings argument.
seedText(settings) ==
    IF viewport.settings.julia THEN TxtSeedC ELSE TxtSeedZero

\* The escape test at the head of the loop body, lines 341-346.
escapeTestText_Always(settings) ==
    TxtEscapeOpen \o toFixed2(settings.breakout) \o TxtEscapeClose

escapeTestText(settings) ==
    IF settings.coloring # "domain"
        THEN TxtEscapeOpen \o toFixed2(settings.breakout) \o TxtEscapeClose
    ELSE <<>>

\* The smoothing correction, lines 350-356.
smoothText_Unguarded(settings) ==
    IF settings.smooth THEN TxtSmoothBody ELSE <<>>

smoothText(settings) ==
    IF settings.smooth THEN TxtSmoothGuard \o TxtSmoothBody ELSE <<>>

\* color(${settings.coloring !== "domain" ? "iter/floatIter" : "z"})
colorArgText(settings) ==
    IF settings.coloring # "domain" THEN TxtIterFraction ELSE TxtZ

NoText == [produced |-> FALSE]

getFragment(ast, settings) ==
    LET functionString == recursiveDecompose(ast)
    IN  IF functionString.thrown THEN [thrown |-> TRUE, text |-> NoText]
        ELSE [thrown |-> FALSE,
              text |-> [produced       |-> TRUE,
                        iterations     |-> NumberToString(settings.iterations),
                        functionString |-> functionString.text,
                        colorParam     |-> colorParamText(settings),
                        shift          |-> toFixed2(settings.hueShift),
                        bias           |-> biasText(settings),
                        coloring       |-> coloringBody(settings.coloring),
                        seed           |-> seedText(settings),
                        escapeTest     |-> escapeTestText(settings),
                        smooth         |-> smoothText(settings),
                        colorArg       |-> colorArgText(settings)]]

(***************************************************************************)
(* The parse trees the decomposer is applied to.                           *)
(***************************************************************************)
\* Every lexeme over a few digits and the point, well formed or not.
LexChars == {"3", "5", "."}

RECURSIVE LexemesOfLen(_)
LexemesOfLen(k) ==
    IF k = 0 THEN {<<>>}
    ELSE {Append(l, ch) : l \in LexemesOfLen(k - 1), ch \in LexChars}

Lexemes == UNION {LexemesOfLen(k) : k \in 1..MaxLexLen}

NumberNodes == {NumberNode(l) : l \in Lexemes \cup {LexI, LexE, LexPi}}

Leaves == {NumberNode(<<"2">>), VariableNode(<<"z">>), OtherNode}

UnaryTags == {<<"s","i","n">>, <<"f","o","o">>}
BinaryTags == {<<"+">>, <<"-">>, <<"*">>, <<"/">>, <<"^">>, <<"%">>}

RECURSIVE TreesOfSize(_)
TreesOfSize(k) ==
    IF k = 1 THEN Leaves
    ELSE LET sub == [j \in 1..(k - 1) |-> TreesOfSize(j)]
         IN  {OneOperatorNode(t, v) : t \in UnaryTags, v \in sub[k - 1]}
             \cup UNION {{TwoOperatorNode(o, l, r) :
                              o \in BinaryTags,
                              l \in sub[j],
                              r \in sub[k - 1 - j]} : j \in 1..(k - 2)}

Trees == NumberNodes \cup UNION {TreesOfSize(k) : k \in 1..MaxNodes}

(***************************************************************************)
(* Idle values of the variables a specification does not use.              *)
(***************************************************************************)
Pending == [done |-> FALSE, thrown |-> FALSE, text |-> <<>>]
NoNode == OtherNode
NoViewport == [settings |-> "none"]
NoCall == [made |-> FALSE]
NoGpu == [pc |-> "off"]
NoRender == [setups |-> 0]

(***************************************************************************)
(* SpecDecompose: recursiveDecompose applied to one tree.                  *)
(***************************************************************************)
InitDecompose ==
    /\ node \in Trees
    /\ out = Pending
    /\ viewport = NoViewport
    /\ call = NoCall
    /\ gpu = NoGpu
    /\ render = NoRender

Decompose ==
    /\ ~out.done
    /\ out' = [done |-> TRUE,
               thrown |-> recursiveDecompose(node).thrown,
               text |-> recursiveDecompose(node).text]
    /\ UNCHANGED <<node, viewport, call, gpu, render>>

NextDecompose == Decompose

SpecDecompose == InitDecompose /\ [][NextDecompose]_vars

(***************************************************************************)
(* Spec: the global viewport and calls of getFragment.                     *)
(***************************************************************************)
\* Settings records.  breakout, bias and hueShift are in thousandths.
IterationsValues == {1, MaxIter}
BreakoutValues == {996, 4000}
ColoringValues == {"1", "hue", "domain"}
BiasValues == {0}
HueShiftValues == {0}

SettingsRecords ==
    [iterations : IterationsValues,
     breakout   : BreakoutValues,
     coloring   : ColoringValues,
     bias       : BiasValues,
     hueShift   : HueShiftValues,
     julia      : BOOLEAN,
     smooth     : BOOLEAN]

\* z*z+c, an unknown function of z, and a node of no known class.
Mandelbrot ==
    TwoOperatorNode(<<"+">>,
                    TwoOperatorNode(<<"*">>, VariableNode(<<"z">>), VariableNode(<<"z">>)),
                    VariableNode(<<"c">>))

Formulas == {Mandelbrot, OneOperatorNode(<<"f","o","o">>, VariableNode(<<"z">>)), OtherNode}

\* The state once loadQueryParams has run (src/src/render.ts 31-59, 72-93):
\* the defaults, each replaced by its query parameter when one is given.
\* coloring is the number 1 or the number parsed from 'cm', never a key of
\* the table.
Init ==
    /\ node = NoNode
    /\ out = Pending
    /\ viewport \in {[settings |-> s] : s \in {t \in SettingsRecords : t.coloring = "1"}}
    /\ call = NoCall
    /\ gpu = NoGpu
    /\ render = NoRender

\* The record of a call: its arguments and what it did.
Called(ast, settings, outcome) ==
    [made     |-> TRUE,
     ast      |-> ast,
     settings |-> settings,
     thrown   |-> outcome.thrown,
     text     |-> outcome.text]

\* A settings control changes one field of viewport.settings.
changeSetting ==
    /\ \E s \in SettingsRecords :
          /\ s # viewport.settings
          /\ Cardinality({f \in DOMAIN s : s[f] # viewport.settings[f]}) = 1
          /\ viewport' = [settings |-> s]
    /\ UNCHANGED <<node, out, call, gpu, render>>

\* A call getFragment(ast, settings).
getFragmentCall ==
    /\ \E ast \in Formulas, settings \in SettingsRecords :
          call' = Called(ast, settings, getFragment(ast, settings))
    /\ UNCHANGED <<node, out, viewport, gpu, render>>

Next == changeSetting \/ getFragmentCall

Spec == Init /\ [][Next]_vars

(***************************************************************************)
(* Claims about the assembler, checked under Spec.                         *)
(***************************************************************************)
\* C1: assembling with a settings.coloring that is no key of the coloring
\* table fails, and no program text is produced.
C1_UnknownColoringFails ==
    (call.made /\ call.settings.coloring \notin DOMAIN COLORING_MODES) =>
        (call.thrown /\ call.text = NoText)

\* C2: two getFragment calls given the same tree and the same settings
\* record have the same outcome and return the same text, whatever the
\* state outside the two arguments is at each call.
C2_Deterministic ==
    [][(call.made /\ call'.made /\ call'.ast = call.ast /\ call'.settings = call.settings)
          => (call'.thrown = call.thrown /\ call'.text = call.text)]_vars

\* C3: in the text getFragment(ast, settings) returns, the iterate is seeded
\* with c when settings.julia is set and with vec2(0.0,0.0) when it is not.
C3_SeedFollowsSettings ==
    (call.made /\ ~call.thrown) =>
        call.text.seed = IF call.settings.julia
                            THEN <<"c">>
                            ELSE <<"v","e","c","2","(","0",".","0",",","0",".","0",")">>

(***************************************************************************)
(* The generated program, run for one fragment.  Complex values are pairs  *)
(* of integers; f is evaluated from the text of functionString.            *)
(***************************************************************************)
\* vec2 cm(vec2 z1, vec2 z2), src/shaders.ts 128-130.
cm(z1, z2) == <<z1[1] * z2[1] - z1[2] * z2[2], z1[2] * z2[1] + z1[1] * z2[2]>>

\* z.x*z.x + z.y*z.y
sqMagnitude(z) == z[1] * z[1] + z[2] * z[2]

\* The value of a run of digits.
RECURSIVE ParseDigits(_)
ParseDigits(text) ==
    IF text = <<>> THEN 0
    ELSE 10 * ParseDigits(SubSeq(text, 1, Len(text) - 1)) + DigitVal(text[Len(text)])

\* The position after the real token that starts at p.
RECURSIVE RealEnd(_, _)
RealEnd(text, p) ==
    IF p <= Len(text) /\ text[p] \in Digits \cup {"."} THEN RealEnd(text, p + 1) ELSE p

\* The position of the point in a real token, or one past its end.
RECURSIVE PointAt(_, _)
PointAt(text, p) ==
    IF p <= Len(text) /\ text[p] # "." THEN PointAt(text, p + 1) ELSE p

\* A real token with two decimals (what toFixed(2) writes), in hundredths.
HundredthsOf(text) ==
    LET dot == PointAt(text, 1)
    IN  100 * ParseDigits(SubSeq(text, 1, dot - 1))
        + ParseDigits(SubSeq(text, dot + 1, dot + 2))

\* The whole part of a real token; the formulas run here hold whole-number
\* literals only.
WholeOf(text) == ParseDigits(SubSeq(text, 1, PointAt(text, 1) - 1))

\* The expression grammar the decomposer emits for the formulas run here:
\*   expr ::= term { (+|-) term }      read left to right
\*   term ::= z | c | cm(expr,expr) | vec2(real,real)
\* Each operator returns the value read and the position after it.
RECURSIVE evalExpr(_, _, _, _)
RECURSIVE evalSum(_, _, _, _, _)
RECURSIVE evalTerm(_, _, _, _)
evalExpr(text, p, z, c) ==
    LET t == evalTerm(text, p, z, c)
    IN  evalSum(text, t.p, t.v, z, c)

evalSum(text, p, acc, z, c) ==
    IF p <= Len(text) /\ text[p] \in {"+", "-"}
        THEN LET t == evalTerm(text, p + 1, z, c)
                 v == IF text[p] = "+"
                         THEN <<acc[1] + t.v[1], acc[2] + t.v[2]>>
                         ELSE <<acc[1] - t.v[1], acc[2] - t.v[2]>>
             IN  evalSum(text, t.p, v, z, c)
    ELSE [v |-> acc, p |-> p]

evalTerm(text, p, z, c) ==
    IF text[p] = "z" THEN [v |-> z, p |-> p + 1]
    ELSE IF text[p] = "c" /\ p + 2 <= Len(text) /\ text[p + 1] = "m" /\ text[p + 2] = "("
        THEN LET a == evalExpr(text, p + 3, z, c)
                 b == evalExpr(text, a.p + 1, z, c)
             IN  [v |-> cm(a.v, b.v), p |-> b.p + 1]
    ELSE IF text[p] = "c" THEN [v |-> c, p |-> p + 1]
    ELSE LET reEnd == RealEnd(text, p + 5)
             imEnd == RealEnd(text, reEnd + 1)
         IN  [v |-> <<WholeOf(SubSeq(text, p + 5, reEnd - 1)),
                      WholeOf(SubSeq(text, reEnd + 1, imEnd - 1))>>,
              p |-> imEnd + 1]

\* vec2 f(vec2 z, vec2 c) { return ${functionString}; }
f(text, z, c) == evalExpr(text.functionString, 1, z, c).v

\* const int iterations = ${settings.iterations};
iterationsOf(text) == ParseDigits(text.iterations)

\* A real token with two decimals and an optional sign, in hundredths.
SignedHundredthsOf(text) ==
    IF Head(text) = "-" THEN 0 - HundredthsOf(Tail(text)) ELSE HundredthsOf(text)

\* The bias in x = pow(x,pow(1.1,<bias>)); in hundredths.
biasOf(text) == SignedHundredthsOf(SubSeq(text.bias, 2, Len(text.bias) - 1))

\* Whether the loop body holds the escape test, and its threshold.
hasEscapeTest(text) == text.escapeTest # <<>>
thresholdOf(text) == HundredthsOf(SubSeq(text.escapeTest, 2, Len(text.escapeTest) - 1))

\* z.x*z.x + z.y*z.y > <threshold>
exceeds(text, z) == sqMagnitude(z) * 100 > thresholdOf(text)

\* z*z-(c+2) and z+c, beside z*z+c.
Shifted ==
    TwoOperatorNode(<<"-">>,
                    TwoOperatorNode(<<"*">>, VariableNode(<<"z">>), VariableNode(<<"z">>)),
                    TwoOperatorNode(<<"+">>, VariableNode(<<"c">>), NumberNode(<<"2">>)))

Linear == TwoOperatorNode(<<"+">>, VariableNode(<<"z">>), VariableNode(<<"c">>))

RunFormulas == {Mandelbrot, Shifted, Linear}

\* gl.compileShader accepts the text: color() has a body, and f is one of
\* the expressions evaluated here.
compiles(text) ==
    /\ text.coloring # TxtUndefined
    /\ text.functionString \in {recursiveDecompose(a).text : a \in RunFormulas}

\* The values of c = uv/u_transform.z + u_transform.xy over the fragments.
Seeds == {<<0, 0>>, <<1, 0>>, <<0, 1>>, <<-1, 0>>, <<1, 1>>, <<2, 0>>}

\* The settings of the programs run here: the two-colour modes beside the
\* others, and a bias of 0 and of -300 (in thousandths).
KernelColoringValues == ColoringValues \cup {"bw", "bwInv"}
KernelBiasValues == {0, -300000}

KernelSettings ==
    [iterations : 1..MaxIter,
     breakout   : BreakoutValues,
     coloring   : KernelColoringValues,
     bias       : KernelBiasValues,
     hueShift   : HueShiftValues,
     julia      : BOOLEAN,
     smooth     : BOOLEAN]

\* iter as the program holds it: a whole count, and, once the smoothing
\* correction has run, the iterate whose nu was subtracted from count + 1.
Count(k) == [whole |-> k, corrected |-> FALSE, at |-> <<0, 0>>]
Smoothed(iter, z) == [whole |-> iter.whole + 1, corrected |-> TRUE, at |-> z]

NoArg == [kind |-> "none", iter |-> Count(0), floatIter |-> 0, z |-> <<0, 0>>]

\* x = pow(x,pow(1.1,bias)) in single precision, for x = iter/floatIter with
\* iter a whole count in 0..floatIter and bias below 900, where the exponent
\* p = 1.1^bias is a positive finite float.  pow(1.0,p) is 1.0 and pow(0.0,p)
\* is 0.0.  For 0 < x < 1 the exact power is 1 - p*ln(1/x) to first order,
\* and the float nearest to it is 1.0 once p*ln(1/x) < 2^-25.  ln(1/x) is
\* below 104 for every positive float x, so at bias <= -231 (1.1^-231 * 104
\* < 2^-25) every such x gives 1.0; at bias >= -168 the fractions i/n with
\* n <= 5 stay below 1.0.  The model runs no bias between the two.
biasCurve(text, iter, floatIter) ==
    IF iter.whole = floatIter THEN "one"
    ELSE IF iter.whole = 0 THEN "zero"
    ELSE IF biasOf(text) <= -23100 THEN "one"
    ELSE "below"

\* The colours color(iter/floatIter) can return.  The bodies of 'bw' and
\* 'bwInv' (src/shaders.ts 15-24) test x >= 1.0 after the bias curve; a
\* corrected iter is a real this model does not compute, so either branch;
\* the colours of the other modes are not told apart.
colorOf(text, iter, floatIter) ==
    IF text.coloring \notin {COLORING_MODES.bw, COLORING_MODES.bwInv} THEN {"other"}
    ELSE IF iter.corrected THEN {"black", "white"}
    ELSE IF text.coloring = COLORING_MODES.bw
        THEN {IF biasCurve(text, iter, floatIter) = "one" THEN "black" ELSE "white"}
    ELSE {IF biasCurve(text, iter, floatIter) = "one" THEN "white" ELSE "black"}

InitKernel ==
    /\ node = NoNode
    /\ out = Pending
    /\ viewport \in {[settings |-> s] : s \in {t \in KernelSettings :
                         /\ t.iterations = 1
                         /\ t.breakout = 4000
                         /\ t.coloring = "1"
                         /\ t.bias = 0
                         /\ ~t.smooth}}
    /\ call = NoCall
    /\ gpu = NoGpu
    /\ render = NoRender

\* getFragment builds the program.
assemble ==
    /\ ~call.made
    /\ \E ast \in RunFormulas, settings \in KernelSettings :
          call' = Called(ast, settings, getFragment(ast, settings))
    /\ UNCHANGED <<node, out, viewport, gpu, render>>

\* main() up to the loop, lines 336-340, for the fragment at c.
launch ==
    /\ call.made /\ ~call.thrown /\ compiles(call.text)
    /\ gpu.pc = "off"
    /\ \E c \in Seeds :
          LET z0 == IF call.text.seed = TxtSeedC THEN c ELSE <<0, 0>>
          IN  gpu' = [pc        |-> "loop",
                      c         |-> c,
                      z0        |-> z0,
                      z         |-> z0,
                      floatIter |-> iterationsOf(call.text),
                      iter      |-> Count(iterationsOf(call.text)),
                      i         |-> 0,
                      applied   |-> 0,
                      escaped   |-> FALSE,
                      arg       |-> NoArg,
                      colour    |-> "none"]
    /\ UNCHANGED <<node, out, viewport, call, render>>

\* if (z.x*z.x + z.y*z.y > breakout) { iter = float(i); break; }
loopBreak ==
    /\ gpu.pc = "loop"
    /\ gpu.i < iterationsOf(call.text)
    /\ hasEscapeTest(call.text) /\ exceeds(call.text, gpu.z)
    /\ gpu' = [gpu EXCEPT !.iter = Count(gpu.i), !.escaped = TRUE, !.pc = "smooth"]
    /\ UNCHANGED <<node, out, viewport, call, render>>

\* z = f(z, c); i++
loopApply ==
    /\ gpu.pc = "loop"
    /\ gpu.i < iterationsOf(call.text)
    /\ ~(hasEscapeTest(call.text) /\ exceeds(call.text, gpu.z))
    /\ gpu' = [gpu EXCEPT !.z = f(call.text, gpu.z, gpu.c),
                          !.i = gpu.i + 1,
                          !.applied = gpu.applied + 1]
    /\ UNCHANGED <<node, out, viewport, call, render>>

\* i < iterations fails.
loopExit ==
    /\ gpu.pc = "loop"
    /\ gpu.i >= iterationsOf(call.text)
    /\ gpu' = [gpu EXCEPT !.pc = "smooth"]
    /\ UNCHANGED <<node, out, viewport, call, render>>

\* The smoothing block, when the text holds it; its guard, when it has one.
smoothAdjust ==
    /\ gpu.pc = "smooth"
    /\ gpu' = [gpu EXCEPT
                 !.pc = "color",
                 !.iter = IF call.text.smooth = <<>> THEN gpu.iter
                          ELSE IF Head(call.text.smooth) = Head(TxtSmoothGuard)
                                  /\ gpu.iter.whole = gpu.floatIter
                              THEN gpu.iter
                          ELSE Smoothed(gpu.iter, gpu.z)]
    /\ UNCHANGED <<node, out, viewport, call, render>>

\* gl_FragColor = vec4(color(<colorArg>), 1.0);
output ==
    /\ gpu.pc = "color"
    /\ \E colour \in IF call.text.colorArg = TxtIterFraction
                         THEN colorOf(call.text, gpu.iter, gpu.floatIter)
                         ELSE {"other"} :
          gpu' = [gpu EXCEPT
                    !.pc = "done",
                    !.colour = colour,
                    !.arg = IF call.text.colorArg = TxtIterFraction
                               THEN [kind |-> "fraction", iter |-> gpu.iter,
                                     floatIter |-> gpu.floatIter, z |-> <<0, 0>>]
                               ELSE [kind |-> "z", iter |-> Count(0),
                                     floatIter |-> 0, z |-> gpu.z]]
    /\ UNCHANGED <<node, out, viewport, call, render>>

NextKernel ==
    assemble \/ launch \/ loopBreak \/ loopApply \/ loopExit \/ smoothAdjust \/ output

SpecKernel == InitKernel /\ [][NextKernel]_vars

(***************************************************************************)
(* Claims about the generated loop, checked under SpecKernel.              *)
(***************************************************************************)
\* The least step i < n at which the iterate, after i applications of f,
\* has a squared magnitude above breakout (in thousandths); n when none has.
RECURSIVE FirstEscape(_, _, _, _, _, _)
FirstEscape(text, z, c, i, n, breakout) ==
    IF i >= n THEN n
    ELSE IF sqMagnitude(z) * 1000 > breakout THEN i
    ELSE FirstEscape(text, f(text, z, c), c, i + 1, n, breakout)

\* f applied k times to z.
RECURSIVE Iterate(_, _, _, _)
Iterate(text, z, c, k) ==
    IF k = 0 THEN z ELSE Iterate(text, f(text, z, c), c, k - 1)

LoopOver == gpu.pc \in {"smooth", "color", "done"}

\* C4: for a non-domain coloring mode the loop leaves in iter the least step
\* index at which the squared magnitude of the iterate exceeds
\* settings.breakout, having applied f exactly that many times, and leaves
\* the iteration count when no tested iterate exceeds it.
C4_RecordsFirstEscape ==
    (gpu.pc = "smooth" /\ call.settings.coloring # "domain") =>
        LET k == FirstEscape(call.text, gpu.z0, gpu.c, 0,
                             call.settings.iterations, call.settings.breakout)
        IN  /\ gpu.iter = Count(k)
            /\ gpu.applied = k
            /\ gpu.escaped <=> k < call.settings.iterations

\* The value color() is called with is the fraction 1.0: iter is the whole
\* iteration count, uncorrected, over floatIter.
ArgIsOne ==
    /\ gpu.arg.kind = "fraction"
    /\ gpu.arg.iter = Count(gpu.arg.floatIter)
    /\ gpu.arg.floatIter = call.settings.iterations

\* The correction changes iter only after a recorded escape, and a recorded
\* escape index is below the iteration count.
CorrectionOnlyOnEscape ==
    gpu.pc # "off" =>
        /\ gpu.iter.corrected => gpu.escaped
        /\ gpu.escaped => gpu.i < gpu.floatIter
        /\ (gpu.escaped /\ gpu.pc = "smooth") => gpu.iter # Count(gpu.floatIter)

\* C5, as claimed: when no escape is recorded the value passed to the
\* coloring routine is iterations/iterations = 1.0, for either value of
\* smooth; the correction changes iter only when an escape was recorded.
C5_NoEscapeGivesOne ==
    /\ (gpu.pc = "done" /\ ~gpu.escaped) => ArgIsOne
    /\ CorrectionOnlyOnEscape

\* C5, amended: the same for every non-domain coloring mode; in domain mode
\* no escape is ever recorded and the value passed is the iterate z.
C5_NoEscapeGivesOneUnlessDomain ==
    /\ (gpu.pc = "done" /\ ~gpu.escaped /\ call.settings.coloring # "domain") => ArgIsOne
    /\ (gpu.pc = "done" /\ call.settings.coloring = "domain") =>
          (~gpu.escaped /\ gpu.arg.kind = "z")
    /\ (LoopOver /\ ~gpu.escaped) =>
          (gpu.iter = Count(call.settings.iterations) /\ gpu.applied = call.settings.iterations)
    /\ CorrectionOnlyOnEscape

C5_Witness ==
    /\ gpu.pc = "done"
    /\ ~gpu.escaped
    /\ call.settings.coloring = "hue"
    /\ call.settings.smooth
    /\ call.text.smooth # <<>>
    /\ call.settings.iterations >= 2
    /\ ArgIsOne

\* C6: with coloring 'domain' the program holds no escape test, the loop
\* applies f exactly settings.iterations times for every seed, iter stays
\* the iteration count whether or not smooth is set, and color() is declared
\* with a vec2 parameter, has no bias curve and is called with the final z.
C6_DomainRunsToCompletion ==
    (call.made /\ ~call.thrown /\ call.settings.coloring = "domain") =>
        /\ call.text.escapeTest = <<>>
        /\ call.text.colorParam = <<"v","e","c","2">>
        /\ call.text.colorArg = <<"z">>
        /\ call.text.bias = <<>>
        /\ gpu.pc # "off" =>
              /\ ~gpu.escaped
              /\ gpu.iter = Count(call.settings.iterations)
              /\ gpu.applied = gpu.i
              /\ gpu.z = Iterate(call.text, gpu.z0, gpu.c, gpu.applied)
        /\ LoopOver => gpu.applied = call.settings.iterations
        /\ gpu.pc = "done" =>
              /\ gpu.arg.kind = "z"
              /\ gpu.arg.z = Iterate(call.text, gpu.z0, gpu.c, call.settings.iterations)

\* A domain run, smooth set, whose iterate went above the threshold on the
\* way and was iterated on regardless.
C6_Witness ==
    /\ gpu.pc = "done"
    /\ call.settings.coloring = "domain"
    /\ call.settings.smooth
    /\ call.settings.iterations >= 2
    /\ gpu.applied = call.settings.iterations
    /\ sqMagnitude(Iterate(call.text, gpu.z0, gpu.c, 1)) * 1000 > call.settings.breakout
    /\ gpu.arg.kind = "z"

\* C11: with coloring 'bw' a fraction iter/floatIter of exactly 1.0 gives
\* black and any fraction below 1.0 gives white, 'bwInv' gives the opposite
\* colour in every case, and so with smooth off a pixel is black under 'bw'
\* (white under 'bwInv') exactly when no escape was recorded, for every bias.
C11_BlackIffNoEscape ==
    (gpu.pc = "done" /\ call.settings.coloring \in {"bw", "bwInv"} /\ ~gpu.arg.iter.corrected) =>
        LET black == IF call.settings.coloring = "bw" THEN "black" ELSE "white"
            white == IF call.settings.coloring = "bw" THEN "white" ELSE "black"
        IN  /\ gpu.arg.iter.whole = gpu.arg.floatIter => gpu.colour = black
            /\ gpu.arg.iter.whole < gpu.arg.floatIter => gpu.colour = white
            /\ ~call.settings.smooth => (gpu.colour = black <=> ~gpu.escaped)

(***************************************************************************)
(* Claims about the decomposer, checked under SpecDecompose.               *)
(***************************************************************************)
\* The one-argument routines the generated program declares with the
\* complex-function prefix (src/shaders.ts 136-310), without the prefix.
RuntimeRoutines ==
    { <<"s">>, <<"l","n">>, <<"a","b","s">>, <<"a","r","g">>, <<"e","x","p">>,
      <<"s","q","r","t">>, <<"f","l","o","o","r">>, <<"r","o","u","n","d">>,
      <<"c","e","i","l">>, <<"R","e">>, <<"I","m">>,
      <<"s","i","n">>, <<"c","o","s">>, <<"t","a","n">>,
      <<"c","o","t">>, <<"s","e","c">>, <<"c","s","c">>,
      <<"s","i","n","h">>, <<"c","o","s","h">>, <<"t","a","n","h">>,
      <<"c","o","t","h">>, <<"s","e","c","h">>, <<"c","s","c","h">>,
      <<"a","r","c","s","i","n">>, <<"a","r","c","c","o","s">>,
      <<"a","r","c","t","a","n">>, <<"a","r","c","c","o","t">>,
      <<"a","r","c","s","e","c">>, <<"a","r","c","c","s","c">>,
      <<"G","a","m","m","a","2">>, <<"G","a","m","m","a">> }

BinaryOperators == {<<"+">>, <<"-">>, <<"*">>, <<"/">>, <<"^">>}

CountDots(text) == Cardinality({k \in 1..Len(text) : text[k] = "."})

\* Decimal digits, optionally containing one point.
IsNumericLexeme(value) ==
    /\ \A k \in 1..Len(value) : value[k] \in Digits \cup {"."}
    /\ \E k \in 1..Len(value) : value[k] \in Digits
    /\ CountDots(value) <= 1

\* A real-number token of the target language: digits around exactly one point.
IsRealToken(text) ==
    /\ \A k \in 1..Len(text) : text[k] \in Digits \cup {"."}
    /\ \E k \in 1..Len(text) : text[k] \in Digits
    /\ CountDots(text) = 1

RECURSIVE HasUnsupportedNode(_)
HasUnsupportedNode(n) ==
    IF n.type = "TwoOperatorNode"
        THEN \/ n.operator \notin BinaryOperators
             \/ HasUnsupportedNode(n.left)
             \/ HasUnsupportedNode(n.right)
    ELSE IF n.type = "OneOperatorNode"
        THEN n.operator \notin RuntimeRoutines \/ HasUnsupportedNode(n.value)
    ELSE n.type \notin {"NumberNode", "VariableNode"}

RECURSIVE IsValidTree(_)
IsValidTree(n) ==
    IF n.type = "NumberNode"
        THEN n.value \in {LexI, LexE, LexPi} \/ IsNumericLexeme(n.value)
    ELSE IF n.type = "VariableNode" THEN TRUE
    ELSE IF n.type = "OneOperatorNode" THEN IsValidTree(n.value)
    ELSE IF n.type = "TwoOperatorNode"
        THEN /\ n.operator \in BinaryOperators
             /\ IsValidTree(n.left)
             /\ IsValidTree(n.right)
    ELSE FALSE

\* C7: decomposition fails, with no text, for every tree holding a node that
\* matches no known variant or operator tag: a binary tag outside + - * / ^,
\* a unary tag that names no runtime routine, or a node of no known variant,
\* at any depth.
C7_UnsupportedNodeFails ==
    (out.done /\ HasUnsupportedNode(node)) => (out.thrown /\ out.text = <<>>)

\* C8: decomposition is total on valid trees: for every tree of Number
\* (numeric lexeme or i, e, \pi), Variable, UnaryOperator and BinaryOperator
\* (+ - * / ^) nodes it returns a text and never raises.
C8_TotalOnValidTrees ==
    (out.done /\ IsValidTree(node)) => (~out.thrown /\ Len(out.text) > 0)

C8_Witness ==
    /\ out.done
    /\ IsValidTree(node)
    /\ node.type = "TwoOperatorNode"
    /\ node.operator = <<"^">>
    /\ node.left.type = "TwoOperatorNode"
    /\ ~out.thrown

\* The text between "vec2(" and ",0.0)" of a literal.
RealPart(text) == SubSeq(text, Len(TxtVec2Open) + 1, Len(text) - Len(TxtZeroImag))

IsLiteralPair(text) ==
    /\ Len(text) >= Len(TxtVec2Open) + Len(TxtZeroImag)
    /\ SubSeq(text, 1, Len(TxtVec2Open)) = <<"v","e","c","2","(">>
    /\ SubSeq(text, Len(text) - Len(TxtZeroImag) + 1, Len(text)) = <<",","0",".","0",")">>

\* C9: a Number node decomposes to a two-component literal; for a numeric
\* lexeme its real part is the lexeme itself when the lexeme holds a point
\* and the lexeme followed by one ".0" when it does not, so it is a real
\* token with exactly one point; i, e and \pi give (0,1), (e,0) and (pi,0).
C9_NumberLiteral ==
    (out.done /\ node.type = "NumberNode") =>
        /\ ~out.thrown
        /\ node.value = LexI => out.text = <<"v","e","c","2","(","0",".","0",",","1",".","0",")">>
        /\ node.value = LexE => out.text = <<"v","e","c","2","(","e",",","0",".","0",")">>
        /\ node.value = LexPi => out.text = <<"v","e","c","2","(","p","i",",","0",".","0",")">>
        /\ IsNumericLexeme(node.value) =>
              /\ IsLiteralPair(out.text)
              /\ CountDots(RealPart(out.text)) = 1
              /\ IsRealToken(RealPart(out.text))
              /\ RealPart(out.text) =
                    IF CountDots(node.value) = 1 THEN node.value
                    ELSE node.value \o <<".","0">>

C9_Witness ==
    /\ out.done
    /\ node.type = "NumberNode"
    /\ IsNumericLexeme(node.value)
    /\ Len(node.value) >= 2
    /\ CountDots(node.value) = 1
    /\ RealPart(out.text) = node.value

\* The text a child decomposes to.
TextOf(n) == recursiveDecompose(n).text

HelperCall(name, first, second) == name \o <<"(">> \o first \o <<",">> \o second \o <<")">>

\* C10: a BinaryOperator node with children A and B decomposes to A's text,
\* the operator, B's text for + and -, and to cm(A,B), cd(A,B) and cpow(A,B)
\* for *, / and ^, the operands in left-then-right order; a UnaryOperator
\* with tag t decomposes to c, t and the child's text in parentheses.
C10_OperandOrder ==
    (out.done /\ ~out.thrown) =>
        /\ (node.type = "TwoOperatorNode" /\ node.operator \in {<<"+">>, <<"-">>}) =>
              out.text = TextOf(node.left) \o node.operator \o TextOf(node.right)
        /\ (node.type = "TwoOperatorNode" /\ node.operator = <<"*">>) =>
              out.text = HelperCall(<<"c","m">>, TextOf(node.left), TextOf(node.right))
        /\ (node.type = "TwoOperatorNode" /\ node.operator = <<"/">>) =>
              out.text = HelperCall(<<"c","d">>, TextOf(node.left), TextOf(node.right))
        /\ (node.type = "TwoOperatorNode" /\ node.operator = <<"^">>) =>
              out.text = HelperCall(<<"c","p","o","w">>, TextOf(node.left), TextOf(node.right))
        /\ node.type = "OneOperatorNode" =>
              out.text = <<"c">> \o node.operator \o <<"(">> \o TextOf(node.value) \o <<")">>

C10_Witness ==
    /\ out.done
    /\ ~out.thrown
    /\ node.type = "TwoOperatorNode"
    /\ node.operator = <<"/">>
    /\ node.left.type = "OneOperatorNode"
    /\ node.right.type = "VariableNode"
    /\ TextOf(node.left) # TextOf(node.right)

\* The trees of +, - and * over z, c and whole-number literals: the valid
\* trees whose text the evaluator of the generated f reads.
RECURSIVE IsArithmeticTree(_)
IsArithmeticTree(n) ==
    IF n.type = "NumberNode"
        THEN Len(n.value) > 0 /\ \A k \in 1..Len(n.value) : n.value[k] \in Digits
    ELSE IF n.type = "VariableNode" THEN n.value \in {<<"z">>, <<"c">>}
    ELSE IF n.type = "TwoOperatorNode"
        THEN /\ n.operator \in {<<"+">>, <<"-">>, <<"*">>}
             /\ IsArithmeticTree(n.left)
             /\ IsArithmeticTree(n.right)
    ELSE FALSE

\* The value the tree denotes at z and c: each node applied to the values
\* of its own children.
RECURSIVE treeValue(_, _, _)
treeValue(n, z, c) ==
    IF n.type = "NumberNode" THEN <<ParseDigits(n.value), 0>>
    ELSE IF n.type = "VariableNode" THEN (IF n.value = <<"z">> THEN z ELSE c)
    ELSE LET l == treeValue(n.left, z, c)
             r == treeValue(n.right, z, c)
         IN  IF n.operator = <<"+">> THEN <<l[1] + r[1], l[2] + r[2]>>
             ELSE IF n.operator = <<"-">> THEN <<l[1] - r[1], l[2] - r[2]>>
             ELSE <<l[1] * r[1] - l[2] * r[2], l[2] * r[1] + l[1] * r[2]>>

\* C13: for every valid tree the emitted text, read with the precedence and
\* left-to-right associativity the target language gives + and -, has the
\* value of the tree, also when the right child of a - node is itself a +
\* or - node.
C13_InfixLoweringSafe ==
    (out.done /\ ~out.thrown /\ IsArithmeticTree(node)) =>
        \A z \in Seeds, c \in {<<0, 0>>, <<1, 1>>} :
            evalExpr(out.text, 1, z, c).v = treeValue(node, z, c)

(***************************************************************************)
(* SpecRender: setup and draw of src/src/render.ts.  A program object is   *)
(* known by the number of the setup call that created it.                  *)
(***************************************************************************)
MaxSetups == 3
MaxPending == 2

\* getVertex(), src/shaders.ts 363-373: a fixed text.
getVertex == <<"attribute vec4 a_position; uniform float u_aspect; varying vec2 uv; void main() { gl_Position = a_position; uv = vec2(gl_Position.x * u_aspect,gl_Position.y); }">>

NoProgram == [serial |-> 0, vertex |-> <<>>, fragment |-> NoText]

RenderSettings ==
    {s \in SettingsRecords :
        /\ s.breakout = 4000
        /\ s.coloring \in {"1", "hue"}
        /\ ~s.smooth}

\* z*z+c, an unknown function of z (its text does not compile), and the
\* value of currentAST before any formula is parsed (of no node class).
RenderFormulas == {Mandelbrot, OneOperatorNode(<<"f","o","o">>, VariableNode(<<"z">>)), OtherNode}

\* currentAST and the uniform variables are declared without a value; no
\* program is in use and no frame is requested.  coloring is the number 1
\* or the number parsed from 'cm'.
InitRender ==
    /\ node = NoNode
    /\ out = Pending
    /\ viewport \in {[settings |-> s] : s \in {t \in RenderSettings : t.coloring = "1"}}
    /\ call = NoCall
    /\ gpu = NoGpu
    /\ render = [currentAST |-> OtherNode,
                 program    |-> NoProgram,     \* the program gl.useProgram made current
                 uniforms   |-> 0,             \* the program the nine locations are of
                 pending    |-> 0,             \* draw callbacks requested, not yet run
                 setups     |-> 0,             \* calls of setup so far
                 result     |-> "none",        \* how the latest call of setup ended
                 completed  |-> 0,             \* the latest call of setup that ran to its end
                 drawn      |-> [program |-> 0, uniforms |-> 0, after |-> 0]]
                                               \* what the latest frame was drawn with, and
                                               \* after how many calls of setup

\* setup(manual), src/src/render.ts 130-172.  checked is RECOMP_TOGGLE.checked;
\* vertexOk, fragmentOk and linkOk are what the GL context reports for
\* COMPILE_STATUS of the two shaders and LINK_STATUS of the program.
setupResult(raw, manual, checked, vertexOk, fragmentOk, linkOk) ==
    IF checked /\ ~manual THEN "skipped"
    ELSE IF raw.thrown THEN "threw"
    ELSE IF ~vertexOk THEN "vertexFailed"
    ELSE IF ~fragmentOk THEN "fragmentFailed"
    ELSE IF ~linkOk THEN "linkFailed"
    ELSE "completed"

setupState_UsesBeforeLinkCheck(r, raw, result) ==
    LET serial == r.setups + 1
        called == [r EXCEPT !.setups = serial, !.result = result]
        program == [serial |-> serial, vertex |-> getVertex, fragment |-> raw.text]
    IN  IF result = "linkFailed"
            THEN [called EXCEPT !.program = program]
        ELSE IF result # "completed" THEN called
        ELSE [called EXCEPT !.program = program,
                            !.uniforms = serial,
                            !.pending = r.pending + 1,
                            !.completed = serial]

setupState_KeepsProgram(r, raw, result) ==
    LET serial == r.setups + 1
        called == [r EXCEPT !.setups = serial, !.result = result]
    IN  IF result # "completed" THEN called
        ELSE [called EXCEPT !.program = IF r.program = NoProgram
                                            THEN [serial |-> serial,
                                                  vertex |-> getVertex,
                                                  fragment |-> raw.text]
                                        ELSE [r.program EXCEPT !.serial = serial],
                            !.uniforms = serial,
                            !.pending = r.pending + 1,
                            !.completed = serial]

setupState(r, raw, result) ==
    LET serial == r.setups + 1
        called == [r EXCEPT !.setups = serial, !.result = result]
        program == [serial |-> serial, vertex |-> getVertex, fragment |-> raw.text]
    IN  IF result # "completed" THEN called
        ELSE [called EXCEPT !.program = program,
                            !.uniforms = serial,
                            !.pending = r.pending + 1,
                            !.completed = serial]

setup ==
    /\ render.setups < MaxSetups
    /\ render.pending < MaxPending
    /\ LET raw == getFragment(render.currentAST, viewport.settings)
           accepted == ~raw.thrown /\ compiles(raw.text)
       IN  \E manual, checked, vertexOk, driverOk, linkOk \in BOOLEAN :
              render' = setupState(render, raw,
                                   setupResult(raw, manual, checked,
                                               vertexOk, accepted /\ driverOk, linkOk))
    /\ UNCHANGED <<node, out, viewport, call, gpu>>

\* draw(), lines 174-192, run as a requestAnimationFrame callback: it draws
\* with the program in use and the locations the uniform variables hold.
draw ==
    /\ render.pending > 0
    /\ render' = [render EXCEPT
                    !.pending = render.pending - 1,
                    !.drawn = [program  |-> render.program.serial,
                               uniforms |-> render.uniforms,
                               after    |-> render.setups]]
    /\ UNCHANGED <<node, out, viewport, call, gpu>>

\* The resize listener, lines 291-294: requestAnimationFrame(draw).
requestDraw ==
    /\ render.pending < MaxPending
    /\ render' = [render EXCEPT !.pending = render.pending + 1]
    /\ UNCHANGED <<node, out, viewport, call, gpu>>

\* A settings control changes one field of viewport.settings.
setSetting ==
    /\ \E s \in RenderSettings :
          /\ Cardinality({k \in DOMAIN s : s[k] # viewport.settings[k]}) = 1
          /\ viewport' = [settings |-> s]
    /\ UNCHANGED <<node, out, call, gpu, render>>

\* The equation box parses a new formula into currentAST.
setFormula ==
    /\ \E ast \in RenderFormulas :
          /\ ast # render.currentAST
          /\ render' = [render EXCEPT !.currentAST = ast]
    /\ UNCHANGED <<node, out, viewport, call, gpu>>

NextRender == setup \/ draw \/ requestDraw \/ setSetting \/ setFormula

SpecRender == InitRender /\ [][NextRender]_vars

(***************************************************************************)
(* Claims about setup and draw, checked under SpecRender.                  *)
(***************************************************************************)
\* The program in use was built from the vertex text and from the fragment
\* text of the current formula and the current settings.
InUseIsCurrent ==
    /\ render.program.vertex = getVertex
    /\ render.program.fragment = getFragment(render.currentAST, viewport.settings).text

Generates == ~getFragment(render.currentAST, viewport.settings).thrown

SetupCalled == render'.setups # render.setups

\* C12, as claimed: whatever changes of settings and formula came before,
\* after a call of setup the program in use is the one generated from the
\* current formula and the current settings (when they generate one).
C12_RegeneratedOnSetup ==
    [][(SetupCalled /\ Generates') => InUseIsCurrent']_vars

\* C12, amended: a call of setup that runs to its end (not skipped, both
\* shaders compile, the program links) puts in use a new program generated
\* from the current formula and settings; any other call of setup leaves
\* the program in use as it was.
C12_RegeneratedOnCompletedSetup ==
    [][SetupCalled =>
          IF render'.result = "completed"
              THEN /\ Generates'
                   /\ InUseIsCurrent'
                   /\ render'.program.serial = render'.setups
                   /\ render'.program.serial # render.program.serial
              ELSE render'.program = render.program]_vars

\* A second program, generated after a change, replaced the one a frame
\* was drawn with.
C12_Witness ==
    /\ render.result = "completed"
    /\ render.drawn.program >= 1
    /\ render.program.serial > render.drawn.program
    /\ render.program.fragment.iterations = NumberToString(MaxIter)
    /\ InUseIsCurrent

FailedSetups == {"vertexFailed", "fragmentFailed", "linkFailed"}

\* C14: a call of setup in which a shader fails to compile or the program
\* fails to link leaves the program in use, the uniform locations and the
\* requested frames as they were, and every frame is drawn with the program
\* and the uniform locations of the latest call of setup that ran to its end.
C14_FailedSetupKeepsProgram ==
    [][/\ (SetupCalled /\ render'.result \in FailedSetups) =>
             /\ render'.program = render.program
             /\ render'.uniforms = render.uniforms
             /\ render'.pending = render.pending
             /\ render'.completed = render.completed
       /\ render'.pending < render.pending =>
             /\ render'.drawn.program = render.completed
             /\ render'.drawn.uniforms = render.completed]_vars

\* A frame drawn after a failed link with the program of the setup before.
C14_Witness ==
    /\ render.result = "linkFailed"
    /\ render.completed >= 1
    /\ render.setups > render.completed
    /\ render.drawn.after = render.setups
    /\ render.drawn.program = render.completed
    /\ render.program.serial = render.completed

====
